---- MODULE Spec2Model ----
(***************************************************************************)
(* A model of dropbox_download.py: the recursive listing of a shared       *)
(* folder link (get_file_list_recursive), the content hash of a local file *)
(* (db_content_hash) and the planning and parallel download of a file list *)
(* (download_file_list).                                                   *)
(*                                                                         *)
(* Strings that the code builds by concatenation (remote paths) are        *)
(* sequences of tokens: a token is either the separator "/" or a name.     *)
(* The empty string is <<>>, '/'.join([path, name]) is                     *)
(* path \o <<"/", name>>.  File contents are sequences of blocks of 1 MiB. *)
(***************************************************************************)
EXTENDS Integers, Sequences, FiniteSets, TLC

VARIABLES
    \* ---- the world of get_file_list_recursive
    remote,              \* the shared folder: folder path -> listing (sequence of entries)
    pageSize,            \* how many entries the listing API returns per page
    link_root,           \* argument: the shared link
    file_list_location,  \* argument: cache path, or PyNone
    cacheFile,           \* the file at the cache path
    cache0,              \* the file at the cache path when the current call began
    lpc,                 \* position in get_file_list_recursive
    path_worklist,       \* local: folder paths still to expand
    path,                \* local: folder being expanded
    res,                 \* local: last listing response
    entries,             \* local: entries of the folder collected so far
    all_files,           \* local: the manifest being built
    ret,                 \* the value returned by the call (when lpc = "returned")
    exc,                 \* the exception raised by the call (when lpc = "raised")
    requests,            \* listing requests issued by the current call, in order
    call,                \* number of the current call
    prev                 \* how the previous call ended: [lpc, ret, traversed]

VARIABLES
    \* ---- the world of download_file_list
    files_to_download,   \* argument: the manifest
    n_parallel,          \* argument: size of the worker pool
    dirs,                \* local directories that exist
    files,               \* local files: path -> [exists, content]
    files0,              \* the local files when the current run began
    dpc,                 \* position of the main thread in download_file_list
    plan_i,              \* index of the manifest entry the planning loop is at
    futures,             \* local: the submitted tasks, in submission order
    threads,             \* the pool's worker threads: the task each runs, 0 = waiting
    idle_semaphore,      \* the pool's count of workers known to be idle
    collect_j,           \* index of the future whose result is awaited
    dexc,                \* the exception propagating out of the with block
    started,             \* transfers started during the current run
    run,                 \* number of the current run
    prevRun,             \* how the previous run ended
    first_failed         \* history: the first task of the run to fail, 0 if none

VARIABLES
    \* ---- db_content_hash run on one file
    h_content,           \* the content of the file
    h_rest,              \* what fd has not read yet
    h_chunk_hashes,      \* local chunk_hashes: the chunk digests so far
    h_result,            \* the value returned (when hpc = "returned")
    hpc,                 \* position in db_content_hash
    h_call,              \* number of the current call
    h_prev               \* the value the previous call returned

VARIABLES
    \* ---- the script (__main__)
    token_file,          \* the file at args.api_token_file: "absent", "token", "no_token"
    max_num_files,       \* args.max_num_files, or PyNoLimit
    mpc,                 \* position in __main__
    m_error              \* what ended the script with a non-zero status

listVars == <<remote, pageSize, link_root, file_list_location, cacheFile, cache0,
              lpc, path_worklist, path, res, entries, all_files, ret, exc,
              requests, call, prev>>

dlVars == <<files_to_download, n_parallel, dirs, files, files0, dpc, plan_i,
            futures, threads, idle_semaphore, collect_j, dexc, started, run,
            prevRun, first_failed>>

hashVars == <<h_content, h_rest, h_chunk_hashes, h_result, hpc, h_call, h_prev>>

mainVars == <<token_file, max_num_files, mpc, m_error>>

vars == <<listVars, dlVars, hashVars, mainVars>>

(***************************************************************************)
(* Bounds of the model.                                                    *)
(***************************************************************************)
MaxDepth == 2        \* deepest folder nesting of a remote tree
MaxPageSize == 2     \* listing pages hold 1..MaxPageSize entries
MaxCalls == 2        \* successive calls of get_file_list_recursive
MaxFiles == 2        \* longest manifest handed to download_file_list
MaxParallel == 2     \* largest n_parallel
MaxRuns == 2         \* successive runs of download_file_list
MaxLen == 9          \* longest file given to db_content_hash, in blocks

Min(a, b) == IF a < b THEN a ELSE b

(***************************************************************************)
(* db_content_hash (lines 14-24).  SHA-256 is modelled as a collision-free *)
(* symbolic function and hexdigest as an injective encoding.               *)
(***************************************************************************)
CHUNK_SIZE == 4      \* 4 * 1024 * 1024 bytes, in blocks of 1 MiB

Sha256(data) == [sha256 |-> data]
HexDigest(digest) == [hex |-> digest]

RECURSIVE ReadChunks(_, _)
ReadChunks(rest, chunk_hashes) ==
    LET chunk == SubSeq(rest, 1, Min(CHUNK_SIZE, Len(rest)))
    IN  IF Len(chunk) = 0
        THEN chunk_hashes
        ELSE ReadChunks(SubSeq(rest, Len(chunk) + 1, Len(rest)),
                        chunk_hashes \o <<Sha256(chunk)>>)

\* a hash of the whole file in one piece
db_content_hash_whole(content) == HexDigest(Sha256(<<Sha256(content)>>))

db_content_hash(content) == HexDigest(Sha256(ReadChunks(content, <<>>)))

\* fd.read(n): at most n blocks from the current position
fd_read_all(rest, n) == rest
fd_read(rest, n) == SubSeq(rest, 1, Min(n, Len(rest)))

\* line 20-21: open the file, chunk_hashes = b''
HashOpen ==
    /\ hpc = "open"
    /\ h_rest' = h_content
    /\ h_chunk_hashes' = <<>>
    /\ hpc' = "read"
    /\ UNCHANGED <<h_content, h_result, h_call, h_prev>>
    /\ UNCHANGED <<listVars, dlVars, mainVars>>

\* lines 22-23: one turn of the while loop
HashReadChunk ==
    /\ hpc = "read"
    /\ LET chunk == fd_read(h_rest, CHUNK_SIZE)
       IN  /\ Len(chunk) > 0
           /\ h_rest' = SubSeq(h_rest, Len(chunk) + 1, Len(h_rest))
           /\ h_chunk_hashes' = h_chunk_hashes \o <<Sha256(chunk)>>
    /\ UNCHANGED <<h_content, h_result, hpc, h_call, h_prev>>
    /\ UNCHANGED <<listVars, dlVars, mainVars>>

\* lines 22, 24: the read returns b'', the loop ends, the digest is returned
HashReturn ==
    /\ hpc = "read"
    /\ Len(fd_read(h_rest, CHUNK_SIZE)) = 0
    /\ h_result' = HexDigest(Sha256(h_chunk_hashes))
    /\ hpc' = "returned"
    /\ UNCHANGED <<h_content, h_rest, h_chunk_hashes, h_call, h_prev>>
    /\ UNCHANGED <<listVars, dlVars, mainVars>>

\* the same file is hashed again
HashAgain ==
    /\ hpc = "returned"
    /\ h_call < MaxCalls
    /\ h_prev' = h_result
    /\ h_call' = h_call + 1
    /\ hpc' = "open"
    /\ UNCHANGED <<h_content, h_rest, h_chunk_hashes, h_result>>
    /\ UNCHANGED <<listVars, dlVars, mainVars>>

(***************************************************************************)
(* The remote shared folder.  A tree is a chain of folders named "sub",    *)
(* nested up to MaxDepth deep, plus an optional sibling folder "img" in    *)
(* the root; every folder holds any subset of the files a.txt and b.txt.   *)
(***************************************************************************)
PyNone == "<None>"
PyNoLimit == [is_none |-> TRUE, value |-> 0]     \* max_num_files is None
PyInt(n) == [is_none |-> FALSE, value |-> n]
Root == <<>>
JoinPath(p, name) == p \o <<"/", name>>

FileNames == {"a.txt", "b.txt"}

\* a.txt spans two chunks, b.txt is a zero-byte file
FileContent(name) == IF name = "a.txt" THEN <<1, 2, 1, 2, 1>> ELSE <<>>

FileEntry(name) == [tag |-> "file", name |-> name, content |-> FileContent(name)]
FolderEntry(name) == [tag |-> "folder", name |-> name, content |-> <<>>]

SubPath(k) == [j \in 1..(2 * k) |-> IF j % 2 = 1 THEN "/" ELSE "sub"]
ImgPath == <<"/", "img">>

TreeShapes ==
    UNION { { s \in [depth : {d}, files : [0..d -> SUBSET FileNames],
                     img : BOOLEAN, imgFiles : SUBSET FileNames] :
                s.img \/ s.imgFiles = {} } : d \in 0..MaxDepth }

KeepEntries(cands, keep) ==
    LET Kept(e) == e \in keep IN SelectSeq(cands, Kept)

\* the listing of one folder of the tree, in the provider's order
Listing(shape, p) ==
    IF p = ImgPath
    THEN KeepEntries(<<FileEntry("a.txt"), FileEntry("b.txt")>>,
                     { FileEntry(n) : n \in shape.imgFiles })
    ELSE LET k == Len(p) \div 2
         IN  KeepEntries(
                <<FileEntry("a.txt"), FolderEntry("sub"),
                  FileEntry("b.txt"), FolderEntry("img")>>,
                { FileEntry(n) : n \in shape.files[k] }
                  \cup (IF k < shape.depth THEN {FolderEntry("sub")} ELSE {})
                  \cup (IF k = 0 /\ shape.img THEN {FolderEntry("img")} ELSE {}))

Tree(shape) ==
    [ p \in { SubPath(k) : k \in 0..shape.depth }
              \cup (IF shape.img THEN {ImgPath} ELSE {})
        |-> Listing(shape, p) ]

(***************************************************************************)
(* The listing client (dbx.files_list_folder, files_list_folder_continue). *)
(* A response carries one page of metadata, has_more and a cursor.         *)
(***************************************************************************)
\* The content hash the provider reports for a file: the hash of the hashes
\* of its 4 MiB blocks (the scheme the docstring of db_content_hash refers to).
DropboxBlock == 4
DropboxContentHash(content) ==
    LET n == (Len(content) + DropboxBlock - 1) \div DropboxBlock
    IN  HexDigest(Sha256([k \in 1..n |->
            Sha256(SubSeq(content, (k - 1) * DropboxBlock + 1,
                          Min(k * DropboxBlock, Len(content))))]))

NoHash == DropboxContentHash(<<>>)

\* FileMetadata(name, content_hash, size) / FolderMetadata(name)
Metadata(e) ==
    [tag |-> e.tag, name |-> e.name,
     content_hash |-> IF e.tag = "file" THEN DropboxContentHash(e.content) ELSE NoHash,
     size |-> Len(e.content)]

NumPages(listing, ps) == IF Len(listing) = 0 THEN 1 ELSE (Len(listing) + ps - 1) \div ps

Page(tree, ps, p, n) ==
    LET listing == tree[p]
        from == (n - 1) * ps + 1
        to == Min(n * ps, Len(listing))
    IN  [entries |-> [j \in 1..(to - from + 1) |-> Metadata(listing[from + j - 1])],
         has_more |-> n < NumPages(listing, ps),
         cursor |-> [path |-> p, page |-> n + 1]]

files_list_folder(tree, ps, p) == Page(tree, ps, p, 1)
files_list_folder_continue(tree, ps, cursor) == Page(tree, ps, cursor.path, cursor.page)

NoRes == [entries |-> <<>>, has_more |-> FALSE, cursor |-> [path |-> Root, page |-> 0]]

(***************************************************************************)
(* Python values and their JSON form.  A manifest entry is the tuple       *)
(* (path, name, content_hash, size); json.dump writes tuples and lists as  *)
(* arrays, json.load reads an array back as a list.                        *)
(***************************************************************************)
PyTuple(items) == [py |-> "tuple", items |-> items]
PyList(items) == [py |-> "list", items |-> items]

json_dump(pyseq) == [j \in 1..Len(pyseq) |-> [json |-> "array", items |-> pyseq[j].items]]
json_load(jsonseq) == [j \in 1..Len(jsonseq) |-> PyList(jsonseq[j].items)]

NoFile == [exists |-> FALSE, keys |-> {}, shared_link |-> "", file_list |-> <<>>]

SavedList(link) ==
    [exists |-> TRUE, keys |-> {"shared_link", "file_list"}, shared_link |-> link,
     file_list |-> json_dump(<<PyTuple(<<Root, "old.txt", NoHash, 0>>)>>)]

\* a JSON document that is no manifest record: it has no file_list field
NoFileList(link) ==
    [exists |-> TRUE, keys |-> {"shared_link"}, shared_link |-> link,
     file_list |-> <<>>]

InitialCaches == {NoFile, SavedList("link"), SavedList("other-link"), NoFileList("link")}

(***************************************************************************)
(* get_file_list_recursive (lines 27-72).                                  *)
(***************************************************************************)
\* os.path.exists(file_list_location), line 31: os.stat(None) is a TypeError
os_path_exists(location, file) ==
    IF location = PyNone THEN "TypeError"
    ELSE IF file.exists THEN "True" ELSE "False"

Traversed == requests # <<>>

ListLocals == <<path_worklist, path, res, entries, all_files>>
ListArgs == <<remote, pageSize, link_root, file_list_location>>

Raise(e) ==
    /\ lpc' = "raised"
    /\ exc' = e

\* line 31 with file_list_location = None
ExistsRaises ==
    /\ lpc = "enter"
    /\ os_path_exists(file_list_location, cacheFile) = "TypeError"
    /\ Raise("TypeError")
    /\ UNCHANGED <<ListArgs, ListLocals, cacheFile, cache0, ret, requests, call, prev>>
    /\ UNCHANGED <<dlVars, hashVars, mainVars>>

\* lines 31-35: json.load(fd)['file_list']
LoadSavedFileList ==
    /\ lpc = "enter"
    /\ os_path_exists(file_list_location, cacheFile) = "True"
    /\ IF "file_list" \in cacheFile.keys
       THEN /\ ret' = json_load(cacheFile.file_list)
            /\ lpc' = "returned"
            /\ exc' = exc
       ELSE /\ Raise("KeyError")
            /\ ret' = ret
    /\ UNCHANGED <<ListArgs, ListLocals, cacheFile, cache0, requests, call, prev>>
    /\ UNCHANGED <<dlVars, hashVars, mainVars>>

\* lines 37-43
StartTraversal ==
    /\ lpc = "enter"
    /\ os_path_exists(file_list_location, cacheFile) = "False"
    /\ all_files' = <<>>
    /\ path_worklist' = <<Root>>
    /\ lpc' = "loop"
    /\ UNCHANGED <<ListArgs, path, res, entries, cacheFile, cache0, ret, exc,
                   requests, call, prev>>
    /\ UNCHANGED <<dlVars, hashVars, mainVars>>

ListRequest(p) == [kind |-> "list", path |-> p, page |-> 1]
ContinueRequest(cursor) == [kind |-> "continue", path |-> cursor.path, page |-> cursor.page]

\* lines 45-52: pop a path and get the first batch of its entries
PopAndList ==
    /\ lpc = "loop"
    /\ ~(Len(path_worklist) < 1)
    /\ LET p == path_worklist[Len(path_worklist)]
       IN  /\ p \in DOMAIN remote
           /\ path' = p
           /\ path_worklist' = SubSeq(path_worklist, 1, Len(path_worklist) - 1)
           /\ requests' = Append(requests, ListRequest(p))
           /\ res' = files_list_folder(remote, pageSize, p)
           /\ entries' = res'.entries
    /\ lpc' = "pages"
    /\ UNCHANGED <<ListArgs, all_files, cacheFile, cache0, ret, exc, call, prev>>
    /\ UNCHANGED <<dlVars, hashVars, mainVars>>

\* a failing request that still saves what was listed so far
PopAndListFailsSaving ==
    /\ lpc = "loop"
    /\ ~(Len(path_worklist) < 1)
    /\ path' = path_worklist[Len(path_worklist)]
    /\ path_worklist' = SubSeq(path_worklist, 1, Len(path_worklist) - 1)
    /\ requests' = Append(requests, [kind |-> "list", path |-> path', page |-> 1])
    /\ Raise("ListingError")
    /\ cacheFile' = [exists |-> TRUE, keys |-> {"shared_link", "file_list"},
                     shared_link |-> link_root, file_list |-> json_dump(all_files)]
    /\ UNCHANGED <<ListArgs, res, entries, all_files, cache0, ret, call, prev>>
    /\ UNCHANGED <<dlVars, hashVars, mainVars>>

\* line 51 raises (network or API error, or the path is no folder of the link)
PopAndListFails ==
    /\ lpc = "loop"
    /\ ~(Len(path_worklist) < 1)
    /\ path' = path_worklist[Len(path_worklist)]
    /\ path_worklist' = SubSeq(path_worklist, 1, Len(path_worklist) - 1)
    /\ requests' = Append(requests, ListRequest(path'))
    /\ Raise("ListingError")
    /\ UNCHANGED <<ListArgs, res, entries, all_files, cacheFile, cache0, ret, call, prev>>
    /\ UNCHANGED <<dlVars, hashVars, mainVars>>

ExtendEntriesFirstOnly(old, new) == old
ExtendEntries(old, new) == old \o new

\* a loop of lines 55-57 that stops after the first batch
ListContinueSkipped ==
    /\ lpc = "pages"
    /\ res.has_more
    /\ res' = [res EXCEPT !.has_more = FALSE]
    /\ UNCHANGED <<ListArgs, lpc, path_worklist, path, entries, all_files, cacheFile,
                   cache0, ret, exc, requests, call, prev>>
    /\ UNCHANGED <<dlVars, hashVars, mainVars>>

\* lines 55-57: get a further batch
ListContinue ==
    /\ lpc = "pages"
    /\ res.has_more
    /\ requests' = Append(requests, ContinueRequest(res.cursor))
    /\ res' = files_list_folder_continue(remote, pageSize, res.cursor)
    /\ entries' = ExtendEntries(entries, res'.entries)
    /\ UNCHANGED <<ListArgs, lpc, path_worklist, path, all_files, cacheFile, cache0,
                   ret, exc, call, prev>>
    /\ UNCHANGED <<dlVars, hashVars, mainVars>>

\* line 56 raises
ListContinueFails ==
    /\ lpc = "pages"
    /\ res.has_more
    /\ requests' = Append(requests, ContinueRequest(res.cursor))
    /\ Raise("ListingError")
    /\ UNCHANGED <<ListArgs, ListLocals, cacheFile, cache0, ret, call, prev>>
    /\ UNCHANGED <<dlVars, hashVars, mainVars>>

\* lines 59-65: the loop over the entries of one folder
RECURSIVE ClassifyFrom(_, _, _, _, _)
ClassifyFrom(es, k, p, worklist, manifest) ==
    IF k > Len(es) THEN [path_worklist |-> worklist, all_files |-> manifest]
    ELSE LET entry == es[k]
         IN  IF entry.tag = "folder"
             THEN ClassifyFrom(es, k + 1, p, Append(worklist, JoinPath(p, entry.name)),
                               manifest)
             ELSE IF entry.tag = "file"
             THEN ClassifyFrom(es, k + 1, p, worklist,
                               Append(manifest,
                                      PyTuple(<<p, entry.name, entry.content_hash,
                                                entry.size>>)))
             ELSE ClassifyFrom(es, k + 1, p, worklist, manifest)

Classify ==
    /\ lpc = "pages"
    /\ ~res.has_more
    /\ LET out == ClassifyFrom(entries, 1, path, path_worklist, all_files)
       IN  /\ path_worklist' = out.path_worklist
           /\ all_files' = out.all_files
    /\ lpc' = "loop"
    /\ UNCHANGED <<ListArgs, path, res, entries, cacheFile, cache0, ret, exc,
                   requests, call, prev>>
    /\ UNCHANGED <<dlVars, hashVars, mainVars>>

\* a save under a field name that the load does not read
SaveFileListWrongKey(location, link, manifest, file) ==
    IF location # PyNone
    THEN [exists |-> TRUE, keys |-> {"shared_link", "files"},
          shared_link |-> link, file_list |-> json_dump(manifest)]
    ELSE file

\* lines 67-70
SaveFileList(location, link, manifest, file) ==
    IF location # PyNone
    THEN [exists |-> TRUE, keys |-> {"shared_link", "file_list"},
          shared_link |-> link, file_list |-> json_dump(manifest)]
    ELSE file

\* lines 45, 67-72: the worklist is empty
FinishTraversal ==
    /\ lpc = "loop"
    /\ Len(path_worklist) < 1
    /\ cacheFile' = SaveFileList(file_list_location, link_root, all_files, cacheFile)
    /\ ret' = all_files
    /\ lpc' = "returned"
    /\ UNCHANGED <<ListArgs, ListLocals, cache0, exc, requests, call, prev>>
    /\ UNCHANGED <<dlVars, hashVars, mainVars>>

\* the caller calls again with the same arguments (a later run of the tool)
CallAgain ==
    /\ lpc \in {"returned", "raised"}
    /\ call < MaxCalls
    /\ prev' = [lpc |-> lpc, ret |-> ret, traversed |-> Traversed]
    /\ call' = call + 1
    /\ cache0' = cacheFile
    /\ lpc' = "enter"
    /\ path_worklist' = <<>>
    /\ path' = Root
    /\ res' = NoRes
    /\ entries' = <<>>
    /\ all_files' = <<>>
    /\ ret' = <<>>
    /\ exc' = "none"
    /\ requests' = <<>>
    /\ UNCHANGED <<ListArgs, cacheFile>>
    /\ UNCHANGED <<dlVars, hashVars, mainVars>>

(***************************************************************************)
(* Local paths (pathlib2.Path) are sequences of parts; "/" as first part   *)
(* marks an absolute path.                                                 *)
(***************************************************************************)
target_dir == <<"target_dir">>

RECURSIVE StripLeft(_)
StripLeft(str) ==
    IF Len(str) > 0 /\ str[1] = "/" THEN StripLeft(SubSeq(str, 2, Len(str))) ELSE str

RECURSIVE StripRight(_)
StripRight(str) ==
    IF Len(str) > 0 /\ str[Len(str)] = "/"
    THEN StripRight(SubSeq(str, 1, Len(str) - 1)) ELSE str

\* str.strip('/')
Strip(str) == StripRight(StripLeft(str))

\* path.strip('/') of line 83
StripSlashes(str) == Strip(str)

Parts(str) == LET IsName(t) == t # "/" IN SelectSeq(str, IsName)

\* Path(a) / Path(b): an absolute b replaces a
PathDiv(a, b) ==
    IF Len(b) > 0 /\ b[1] = "/" THEN <<"/">> \o Parts(b) ELSE a \o Parts(b)

\* a target that leaves out the folder of the file
TargetFileFlat(p, name) == PathDiv(target_dir, <<name>>)

\* line 83
TargetFile(p, name) == PathDiv(PathDiv(target_dir, StripSlashes(p)), <<name>>)

Parent(p) == SubSeq(p, 1, Len(p) - 1)

Exists(fs, ds, p) == p \in DOMAIN fs \/ p \in ds

\* a directory and its ancestors
Prefixes(p) == { SubSeq(p, 1, k) : k \in 1..Len(p) }

makedirs_nothing(ds, p) == ds

\* os.makedirs(p): p and every missing ancestor
makedirs(ds, p) == ds \cup Prefixes(p)

WriteFile(fs, p, content) ==
    [q \in DOMAIN fs \cup {p} |-> IF q = p THEN content ELSE fs[q]]

(***************************************************************************)
(* The transfer client (dbx.sharing_get_shared_link_file_to_file).         *)
(***************************************************************************)
RemoteHas(tree, rpath) ==
    /\ Len(rpath) >= 2
    /\ SubSeq(rpath, 1, Len(rpath) - 2) \in DOMAIN tree
    /\ \E j \in DOMAIN tree[SubSeq(rpath, 1, Len(rpath) - 2)] :
          /\ tree[SubSeq(rpath, 1, Len(rpath) - 2)][j].tag = "file"
          /\ tree[SubSeq(rpath, 1, Len(rpath) - 2)][j].name = rpath[Len(rpath)]

RemoteContent(tree, rpath) ==
    LET listing == tree[SubSeq(rpath, 1, Len(rpath) - 2)]
        j == CHOOSE k \in DOMAIN listing :
                listing[k].tag = "file" /\ listing[k].name = rpath[Len(rpath)]
    IN  listing[j].content

(***************************************************************************)
(* download_file_list (lines 74-100).  The pool is                         *)
(* ThreadPoolExecutor(n_parallel): submit appends to a FIFO queue and      *)
(* starts a worker thread unless one is known idle or max_workers exist;   *)
(* leaving the with block is shutdown(wait=True).                          *)
(***************************************************************************)
DlArgs == <<files_to_download, n_parallel>>

Terminated(f) == f.state \in {"done", "failed"}

Queued == { j \in DOMAIN futures : futures[j].state = "queued" }

InFlight == { w \in DOMAIN threads : threads[w] # 0 }

EntryAt(k) == files_to_download[k].items

SkipIfExists(fs, target, content_hash) == target \in DOMAIN fs

\* lines 90-92: the file exists and its hash is the remote hash
AlreadyDownloaded(fs, target, content_hash) ==
    /\ target \in DOMAIN fs
    /\ db_content_hash(fs[target]) = content_hash

SpawnAlways(num_threads, max_workers) == TRUE

\* ThreadPoolExecutor._adjust_thread_count: num_threads < max_workers
SpawnAllowed(num_threads, max_workers) == num_threads < max_workers

\* lines 83-88 and 90-92: the entry is up to date
PlanSkip ==
    /\ dpc = "plan"
    /\ plan_i <= Len(files_to_download)
    /\ LET target_file == TargetFile(EntryAt(plan_i)[1], EntryAt(plan_i)[2])
       IN  /\ target_file \notin dirs
           /\ AlreadyDownloaded(files, target_file, EntryAt(plan_i)[3])
           /\ dirs' = IF ~Exists(files, dirs, Parent(target_file))
                      THEN makedirs(dirs, Parent(target_file)) ELSE dirs
    /\ plan_i' = plan_i + 1
    /\ UNCHANGED <<DlArgs, files, files0, dpc, futures, threads, idle_semaphore,
                   collect_j, dexc, started, run, prevRun, first_failed>>
    /\ UNCHANGED <<listVars, hashVars, mainVars>>

\* lines 83-95: the entry is submitted to the pool
PlanSubmit ==
    /\ dpc = "plan"
    /\ plan_i <= Len(files_to_download)
    /\ LET target_file == TargetFile(EntryAt(plan_i)[1], EntryAt(plan_i)[2])
       IN  /\ target_file \notin dirs
           /\ ~AlreadyDownloaded(files, target_file, EntryAt(plan_i)[3])
           /\ dirs' = IF ~Exists(files, dirs, Parent(target_file))
                      THEN makedirs(dirs, Parent(target_file)) ELSE dirs
           /\ futures' = Append(futures,
                  [entry |-> plan_i, target |-> target_file,
                   rpath |-> JoinPath(EntryAt(plan_i)[1], EntryAt(plan_i)[2]),
                   state |-> "queued"])
    /\ IF idle_semaphore > 0
       THEN /\ idle_semaphore' = idle_semaphore - 1
            /\ threads' = threads
       ELSE /\ idle_semaphore' = idle_semaphore
            /\ threads' = IF SpawnAllowed(Len(threads), n_parallel)
                          THEN Append(threads, 0) ELSE threads
    /\ plan_i' = plan_i + 1
    /\ UNCHANGED <<DlArgs, files, files0, dpc, collect_j, dexc, started, run, prevRun, first_failed>>
    /\ UNCHANGED <<listVars, hashVars, mainVars>>

\* a planning loop that notes the error of an entry and goes on to the next
PlanFailsContinues ==
    /\ dpc = "plan"
    /\ plan_i <= Len(files_to_download)
    /\ ~Exists(files, dirs, Parent(TargetFile(EntryAt(plan_i)[1], EntryAt(plan_i)[2])))
    /\ dexc' = "IOError"
    /\ plan_i' = plan_i + 1
    /\ UNCHANGED <<DlArgs, dirs, files, files0, dpc, futures, threads, idle_semaphore,
                   collect_j, started, run, prevRun, first_failed>>
    /\ UNCHANGED <<listVars, hashVars, mainVars>>

\* line 87 or line 91 raises an IOError (OSError)
PlanFails ==
    /\ dpc = "plan"
    /\ plan_i <= Len(files_to_download)
    /\ LET target_file == TargetFile(EntryAt(plan_i)[1], EntryAt(plan_i)[2])
       IN  \/ /\ ~Exists(files, dirs, Parent(target_file))
              /\ dirs' = dirs
           \/ /\ Exists(files, dirs, target_file)
              /\ dirs' = IF ~Exists(files, dirs, Parent(target_file))
                         THEN makedirs(dirs, Parent(target_file)) ELSE dirs
    /\ dexc' = "IOError"
    /\ dpc' = "exit"
    /\ UNCHANGED <<DlArgs, files, files0, plan_i, futures, threads, idle_semaphore,
                   collect_j, started, run, prevRun, first_failed>>
    /\ UNCHANGED <<listVars, hashVars, mainVars>>

\* lines 81, 98: the planning loop is over
EndPlanning ==
    /\ dpc = "plan"
    /\ plan_i > Len(files_to_download)
    /\ dpc' = "collect"
    /\ UNCHANGED <<DlArgs, dirs, files, files0, plan_i, futures, threads,
                   idle_semaphore, collect_j, dexc, started, run, prevRun, first_failed>>
    /\ UNCHANGED <<listVars, hashVars, mainVars>>

\* a worker thread takes the oldest queued task and starts the transfer
WorkerTake(w) ==
    /\ dpc \in {"plan", "collect", "exit", "returned", "raised"}
    /\ threads[w] = 0
    /\ Queued # {}
    /\ LET h == CHOOSE j \in Queued : \A k \in Queued : j <= k
       IN  /\ futures' = [futures EXCEPT ![h].state = "running"]
           /\ threads' = [threads EXCEPT ![w] = h]
    /\ started' = started + 1
    /\ UNCHANGED <<DlArgs, dirs, files, files0, dpc, plan_i, idle_semaphore,
                   collect_j, dexc, run, prevRun, first_failed>>
    /\ UNCHANGED <<listVars, hashVars, mainVars>>

\* the transfer of a worker's task completes: the remote file is written to
\* the target
TransferSucceeds(w) ==
    /\ threads[w] # 0
    /\ RemoteHas(remote, futures[threads[w]].rpath)
    /\ files' = WriteFile(files, futures[threads[w]].target,
                          RemoteContent(remote, futures[threads[w]].rpath))
    /\ futures' = [futures EXCEPT ![threads[w]].state = "done"]
    /\ threads' = [threads EXCEPT ![w] = 0]
    /\ idle_semaphore' = idle_semaphore + 1
    /\ UNCHANGED <<DlArgs, dirs, files0, dpc, plan_i, collect_j, dexc, started,
                   run, prevRun, first_failed>>
    /\ UNCHANGED <<listVars, hashVars, mainVars>>

\* the transfer raises: before the target was opened, or after it was
\* opened for writing and truncated
TransferFails(w) ==
    /\ threads[w] # 0
    /\ \/ files' = files
       \/ files' = WriteFile(files, futures[threads[w]].target, <<>>)
    /\ futures' = [futures EXCEPT ![threads[w]].state = "failed"]
    /\ threads' = [threads EXCEPT ![w] = 0]
    /\ idle_semaphore' = idle_semaphore + 1
    /\ first_failed' = IF first_failed = 0 THEN threads[w] ELSE first_failed
    /\ UNCHANGED <<DlArgs, dirs, files0, dpc, plan_i, collect_j, dexc, started,
                   run, prevRun>>
    /\ UNCHANGED <<listVars, hashVars, mainVars>>

\* lines 99-100: future.result() of a task that succeeded
CollectResult ==
    /\ dpc = "collect"
    /\ collect_j <= Len(futures)
    /\ futures[collect_j].state = "done"
    /\ collect_j' = collect_j + 1
    /\ UNCHANGED <<DlArgs, dirs, files, files0, dpc, plan_i, futures, threads,
                   idle_semaphore, dexc, started, run, prevRun, first_failed>>
    /\ UNCHANGED <<listVars, hashVars, mainVars>>

\* a result that is dropped instead of raised
CollectSwallows ==
    /\ dpc = "collect"
    /\ collect_j <= Len(futures)
    /\ futures[collect_j].state = "failed"
    /\ collect_j' = collect_j + 1
    /\ UNCHANGED <<DlArgs, dirs, files, files0, dpc, plan_i, futures, threads,
                   idle_semaphore, dexc, started, run, prevRun, first_failed>>
    /\ UNCHANGED <<listVars, hashVars, mainVars>>

\* a collection in the order of completion: the first failure to happen
\* is raised
CollectRaisesFirstFailed ==
    /\ dpc = "collect"
    /\ first_failed # 0
    /\ collect_j' = first_failed
    /\ dexc' = "TransferError"
    /\ dpc' = "exit"
    /\ UNCHANGED <<DlArgs, dirs, files, files0, plan_i, futures, threads,
                   idle_semaphore, started, run, prevRun, first_failed>>
    /\ UNCHANGED <<listVars, hashVars, mainVars>>

\* lines 99-100: future.result() re-raises the exception of a failed task
CollectRaises ==
    /\ dpc = "collect"
    /\ collect_j <= Len(futures)
    /\ futures[collect_j].state = "failed"
    /\ dexc' = "TransferError"
    /\ dpc' = "exit"
    /\ UNCHANGED <<DlArgs, dirs, files, files0, plan_i, futures, threads,
                   idle_semaphore, collect_j, started, run, prevRun, first_failed>>
    /\ UNCHANGED <<listVars, hashVars, mainVars>>

\* line 99: every result was collected
EndCollect ==
    /\ dpc = "collect"
    /\ collect_j > Len(futures)
    /\ dpc' = "exit"
    /\ UNCHANGED <<DlArgs, dirs, files, files0, plan_i, futures, threads,
                   idle_semaphore, collect_j, dexc, started, run, prevRun, first_failed>>
    /\ UNCHANGED <<listVars, hashVars, mainVars>>

ShutdownNoWait == TRUE

\* ThreadPoolExecutor.__exit__ is shutdown(wait=True): the queue is drained
\* and every worker thread joined
ShutdownWaited ==
    /\ \A j \in DOMAIN futures : Terminated(futures[j])
    /\ InFlight = {}

\* line 76: the with block is left, normally or with the exception
PoolExit ==
    /\ dpc = "exit"
    /\ ShutdownWaited
    /\ dpc' = IF dexc = "none" THEN "returned" ELSE "raised"
    /\ UNCHANGED <<DlArgs, dirs, files, files0, plan_i, futures, threads,
                   idle_semaphore, collect_j, dexc, started, run, prevRun, first_failed>>
    /\ UNCHANGED <<listVars, hashVars, mainVars>>

\* the tool is run again with the same manifest and target directory
RunAgain ==
    /\ dpc \in {"returned", "raised"}
    /\ run < MaxRuns
    /\ \A j \in DOMAIN futures : Terminated(futures[j])
    /\ InFlight = {}
    /\ prevRun' = [dpc |-> dpc, started |-> started]
    /\ run' = run + 1
    /\ files0' = files
    /\ dpc' = "plan"
    /\ plan_i' = 1
    /\ futures' = <<>>
    /\ threads' = <<>>
    /\ idle_semaphore' = 0
    /\ collect_j' = 1
    /\ dexc' = "none"
    /\ started' = 0
    /\ first_failed' = 0
    /\ UNCHANGED <<DlArgs, dirs, files>>
    /\ UNCHANGED <<listVars, hashVars, mainVars>>

(***************************************************************************)
(* Initial states.                                                         *)
(***************************************************************************)
NoRun == [dpc |-> "none", started |-> 0]

ListStart ==
    /\ lpc = "enter"
    /\ path_worklist = <<>>
    /\ path = Root
    /\ res = NoRes
    /\ entries = <<>>
    /\ all_files = <<>>
    /\ ret = <<>>
    /\ exc = "none"
    /\ requests = <<>>
    /\ call = 1
    /\ prev = [lpc |-> "none", ret |-> <<>>, traversed |-> FALSE]

DownloadIdle ==
    /\ files_to_download = <<>>
    /\ n_parallel = 1
    /\ dirs = {}
    /\ files = << >>
    /\ files0 = << >>
    /\ dpc = "idle"
    /\ plan_i = 1
    /\ futures = <<>>
    /\ threads = <<>>
    /\ idle_semaphore = 0
    /\ collect_j = 1
    /\ dexc = "none"
    /\ started = 0
    /\ run = 1
    /\ prevRun = NoRun
    /\ first_failed = 0

HashIdle ==
    /\ h_content = <<>>
    /\ h_rest = <<>>
    /\ h_chunk_hashes = <<>>
    /\ h_result = NoHash
    /\ hpc = "idle"
    /\ h_call = 1
    /\ h_prev = NoHash

MainIdle ==
    /\ token_file = "token"
    /\ max_num_files = PyNoLimit
    /\ mpc = "idle"
    /\ m_error = "none"

ListInit ==
    /\ remote \in { Tree(s) : s \in TreeShapes }
    /\ pageSize \in 1..MaxPageSize
    /\ link_root = "link"
    /\ file_list_location \in {PyNone, "filelist.json"}
    /\ cacheFile \in (IF file_list_location = PyNone THEN {NoFile} ELSE InitialCaches)
    /\ cache0 = cacheFile
    /\ ListStart
    /\ DownloadIdle
    /\ HashIdle
    /\ MainIdle

ListNext ==
    \/ ExistsRaises
    \/ LoadSavedFileList
    \/ StartTraversal
    \/ PopAndList
    \/ PopAndListFails
    \/ ListContinue
    \/ ListContinueFails
    \/ Classify
    \/ FinishTraversal
    \/ CallAgain

SpecList == ListInit /\ [][ListNext]_vars

\* One call that finds no file at the cache path and so traverses.  The
\* function is one thread of straight-line code: a step that can be taken
\* is taken.
TraverseInit ==
    /\ ListInit
    /\ file_list_location # PyNone
    /\ cacheFile = NoFile

TraverseNext ==
    \/ StartTraversal
    \/ PopAndList
    \/ PopAndListFails
    \/ ListContinue
    \/ ListContinueFails
    \/ Classify
    \/ FinishTraversal

SpecTraverse == TraverseInit /\ [][TraverseNext]_vars /\ WF_vars(TraverseNext)

(***************************************************************************)
(* Initial states of download_file_list: the shared folder holds a.txt and *)
(* b.txt in the root and in /sub; the manifest lists up to MaxFiles of     *)
(* them in listing order; each target is absent, up to date or stale.      *)
(***************************************************************************)
DownloadTree ==
    Tree([depth |-> 1, files |-> [k \in 0..1 |-> FileNames],
          img |-> FALSE, imgFiles |-> {}])

\* the manifest get_file_list_recursive builds for a tree of this shape
FullManifest ==
    ClassifyFrom(files_list_folder(DownloadTree, 4, Root).entries, 1, Root, <<>>, <<>>).all_files
    \o ClassifyFrom(files_list_folder(DownloadTree, 4, SubPath(1)).entries, 1,
                    SubPath(1), <<>>, <<>>).all_files

Manifests ==
    { LET Chosen(e) == e \in S IN SelectSeq(FullManifest, Chosen) :
        S \in { T \in SUBSET { FullManifest[j] : j \in DOMAIN FullManifest } :
                  Cardinality(T) <= MaxFiles } }

StaleContent == <<2>>

LocalFile(state, e) ==
    IF state = "same"
    THEN RemoteContent(DownloadTree, JoinPath(e.items[1], e.items[2]))
    ELSE StaleContent

ListIdle ==
    /\ remote = DownloadTree
    /\ pageSize = 1
    /\ link_root = "link"
    /\ file_list_location = "filelist.json"
    /\ cacheFile = NoFile
    /\ cache0 = NoFile
    /\ lpc = "idle"
    /\ path_worklist = <<>>
    /\ path = Root
    /\ res = NoRes
    /\ entries = <<>>
    /\ all_files = <<>>
    /\ ret = <<>>
    /\ exc = "none"
    /\ requests = <<>>
    /\ call = 1
    /\ prev = [lpc |-> "none", ret |-> <<>>, traversed |-> FALSE]

DownloadInit ==
    /\ ListIdle
    /\ HashIdle
    /\ MainIdle
    /\ files_to_download \in Manifests
    /\ n_parallel \in 1..MaxParallel
    /\ \E local \in [DOMAIN files_to_download -> {"absent", "same", "stale"}] :
          LET present == { k \in DOMAIN files_to_download : local[k] # "absent" }
              Target(k) == TargetFile(EntryAt(k)[1], EntryAt(k)[2])
          IN  /\ files = [ q \in { Target(k) : k \in present } |->
                             LET k == CHOOSE k \in present : Target(k) = q
                             IN  LocalFile(local[k], files_to_download[k]) ]
              /\ dirs = UNION { Prefixes(Parent(Target(k))) : k \in present }
    /\ files0 = files
    /\ dpc = "plan"
    /\ plan_i = 1
    /\ futures = <<>>
    /\ threads = <<>>
    /\ idle_semaphore = 0
    /\ collect_j = 1
    /\ dexc = "none"
    /\ started = 0
    /\ run = 1
    /\ prevRun = NoRun
    /\ first_failed = 0

DownloadNext ==
    \/ PlanSkip
    \/ PlanSubmit
    \/ PlanFails
    \/ EndPlanning
    \/ \E w \in DOMAIN threads : WorkerTake(w)
    \/ \E w \in DOMAIN threads : TransferSucceeds(w)
    \/ \E w \in DOMAIN threads : TransferFails(w)
    \/ CollectResult
    \/ CollectRaises
    \/ EndCollect
    \/ PoolExit
    \/ RunAgain

SpecDL == DownloadInit /\ [][DownloadNext]_vars

(***************************************************************************)
(* One run of download_file_list on a file list as it may be loaded from   *)
(* the file at file_list_location (line 34): the entries are lists, and a  *)
(* parent path is any string, here "", "/sub" or "sub".  The entries of a  *)
(* list are pairwise different; the targets are all absent, all up to date *)
(* or all stale.                                                           *)
(***************************************************************************)
LoadedPaths == {Root, SubPath(1), <<"sub">>}

LoadedEntries ==
    { PyList(<<p, "a.txt", DropboxContentHash(FileContent("a.txt")),
               Len(FileContent("a.txt"))>>) : p \in LoadedPaths }

LoadedManifests ==
    UNION { { l \in [1..n -> LoadedEntries] :
                \A j, k \in 1..n : l[j] = l[k] => j = k } : n \in 0..MaxFiles }

LoadedInit ==
    /\ ListIdle
    /\ HashIdle
    /\ MainIdle
    /\ files_to_download \in LoadedManifests
    /\ n_parallel \in 1..MaxParallel
    /\ \E local \in {"absent", "same", "stale"} :
          LET targets == { TargetFile(EntryAt(k)[1], EntryAt(k)[2]) :
                             k \in DOMAIN files_to_download }
          IN  /\ files = IF local = "absent" THEN << >>
                         ELSE [ q \in targets |->
                                  IF local = "same" THEN FileContent(q[Len(q)])
                                  ELSE StaleContent ]
              /\ dirs = IF local = "absent" THEN {}
                        ELSE UNION { Prefixes(Parent(q)) : q \in targets }
    /\ files0 = files
    /\ dpc = "plan"
    /\ plan_i = 1
    /\ futures = <<>>
    /\ threads = <<>>
    /\ idle_semaphore = 0
    /\ collect_j = 1
    /\ dexc = "none"
    /\ started = 0
    /\ run = 1
    /\ prevRun = NoRun
    /\ first_failed = 0

LoadedNext ==
    \/ PlanSkip
    \/ PlanSubmit
    \/ PlanFails
    \/ EndPlanning
    \/ \E w \in DOMAIN threads : WorkerTake(w)
    \/ \E w \in DOMAIN threads : TransferSucceeds(w)
    \/ \E w \in DOMAIN threads : TransferFails(w)
    \/ CollectResult
    \/ CollectRaises
    \/ EndCollect
    \/ PoolExit

SpecLoaded == LoadedInit /\ [][LoadedNext]_vars

(***************************************************************************)
(* Properties of get_file_list_recursive, checked under SpecList.          *)
(***************************************************************************)
EntrySet(manifest) == { manifest[j].items : j \in DOMAIN manifest }

\* the files of a remote tree, each with the path of the folder that holds it
RemoteFiles(tree) ==
    UNION { { <<p, tree[p][j].name, DropboxContentHash(tree[p][j].content),
                Len(tree[p][j].content)>> :
                j \in { k \in DOMAIN tree[p] : tree[p][k].tag = "file" } } :
            p \in DOMAIN tree }

RemoteFolders(tree) ==
    UNION { { <<p, tree[p][j].name>> :
                j \in { k \in DOMAIN tree[p] : tree[p][k].tag = "folder" } } :
            p \in DOMAIN tree }

\* C1: a traversal that returns has built a manifest with exactly one entry
\* per remote file, whose parent path is the path of the folder holding the
\* file ("" for the root, parent + "/" + name below it), and no entry for a
\* folder.
C1_TraversalComplete ==
    (lpc = "returned" /\ Traversed) =>
        /\ EntrySet(ret) = RemoteFiles(remote)
        /\ Len(ret) = Cardinality(RemoteFiles(remote))
        /\ \A j \in DOMAIN ret :
              /\ ret[j].items[1] \in DOMAIN remote
              /\ <<ret[j].items[1], ret[j].items[2]>> \notin RemoteFolders(remote)

\* a returned traversal of a tree nested two deep with a sibling folder,
\* a listing of several pages and files at every level
C1_Witness ==
    /\ lpc = "returned"
    /\ Traversed
    /\ Len(ret) >= 4
    /\ \E j \in DOMAIN requests : requests[j].kind = "continue"
    /\ \E j \in DOMAIN ret : ret[j].items[1] = <<"/", "sub", "/", "sub">>
    /\ \E j \in DOMAIN ret : ret[j].items[1] = <<"/", "img">>
    /\ \E j \in DOMAIN ret : ret[j].items[1] = <<>>

\* C6: the call after one that traversed and saved the manifest issues no
\* listing request and returns the same set of entries.
C6_CacheRoundTrip ==
    (call > 1 /\ prev.lpc = "returned" /\ prev.traversed) =>
        /\ requests = <<>>
        /\ lpc \in {"enter", "returned"}
        /\ lpc = "returned" => EntrySet(ret) = EntrySet(prev.ret)

C6_Witness ==
    /\ call > 1
    /\ prev.lpc = "returned"
    /\ prev.traversed
    /\ lpc = "returned"
    /\ Len(ret) >= 3
    /\ cacheFile.exists

\* C7: when a listing request fails the call raises, returns nothing and
\* leaves the file at the cache path as it was when the call began.
C7_AllOrNothing ==
    (lpc = "raised" /\ exc = "ListingError") =>
        /\ ret = <<>>
        /\ cacheFile = cache0

\* a continuation request failed after files of other folders were listed
C7_Witness ==
    /\ lpc = "raised"
    /\ exc = "ListingError"
    /\ all_files # <<>>
    /\ requests[Len(requests)].kind = "continue"
    /\ ~cacheFile.exists

\* C10: a call without a cache path traverses, returns the manifest it
\* built, and neither loads nor saves anything.
C10_NoCachePath ==
    (file_list_location = PyNone /\ lpc \in {"returned", "raised"}) =>
        /\ lpc = "returned"
        /\ Traversed
        /\ EntrySet(ret) = RemoteFiles(remote)
        /\ cacheFile = cache0

\* C13: when the file at the cache path is no manifest record (it has no
\* file_list field) the call traverses: it does not end with the error of
\* reading the file, and what it returns is the traversal's manifest.
C13_InvalidCacheTraverses ==
    (cache0.exists /\ "file_list" \notin cache0.keys /\ lpc \in {"returned", "raised"}) =>
        /\ Traversed
        /\ exc # "KeyError"
        /\ lpc = "returned" => EntrySet(ret) = RemoteFiles(remote)

\* the response the remote gave to a request
ResponseTo(request) == Page(remote, pageSize, request.path, request.page)

ListRequests == { j \in DOMAIN requests : requests[j].kind = "list" }

SingleExpansion ==
    /\ \A j, k \in ListRequests : requests[j].path = requests[k].path => j = k
    /\ \A j \in ListRequests : requests[j].path \in DOMAIN remote
    /\ \A j \in DOMAIN requests :
          IF requests[j].kind = "continue"
          THEN /\ j > 1
               /\ ResponseTo(requests[j - 1]).has_more
               /\ requests[j] = ContinueRequest(ResponseTo(requests[j - 1]).cursor)
          ELSE j > 1 => ~ResponseTo(requests[j - 1]).has_more
    /\ (lpc = "returned" /\ Traversed) =>
          /\ path_worklist = <<>>
          /\ { requests[j].path : j \in ListRequests } = DOMAIN remote
          /\ ~ResponseTo(requests[Len(requests)]).has_more

\* C16: the worklist loop ends; no folder gets two first-page requests; a
\* continuation request is made exactly when the response before it said
\* has_more, with that response's cursor; and a traversal that returns has
\* an empty worklist and has listed every folder of the tree, each to its
\* last page.
C16_TerminationSingleExpansion ==
    /\ []SingleExpansion
    /\ (lpc \in {"loop", "pages"}) ~> (lpc \in {"returned", "raised"})

\* a returned traversal of a tree with three folders below the root, one
\* of them listed in several pages
C16_Witness ==
    /\ lpc = "returned"
    /\ Cardinality(ListRequests) >= 4
    /\ \E j \in DOMAIN requests : requests[j].kind = "continue" /\ requests[j].path # Root
    /\ path_worklist = <<>>

\* C17: a saved file list whose shared_link is not link_root is not what
\* the call returns: the returned manifest lists the files of link_root.
C17_CacheOfRequestedLink ==
    (lpc = "returned" /\ cache0.exists /\ cache0.shared_link # link_root) =>
        /\ Traversed
        /\ EntrySet(ret) = RemoteFiles(remote)

(***************************************************************************)
(* Properties of download_file_list, checked under SpecDL.                 *)
(***************************************************************************)
Running == { j \in DOMAIN futures : futures[j].state = "running" }
Failed == { j \in DOMAIN futures : futures[j].state = "failed" }
PlanningOver == plan_i > Len(files_to_download)

\* C2: a run that follows a run which returned normally, with the same
\* manifest and target directory, submits and starts no transfer.
C2_SecondRunTransfersNothing ==
    (run > 1 /\ prevRun.dpc = "returned") =>
        /\ started = 0
        /\ futures = <<>>

\* the second run has ended after a first run that transferred two files
C2_Witness ==
    /\ run = 2
    /\ prevRun.dpc = "returned"
    /\ prevRun.started = 2
    /\ dpc = "returned"
    /\ Len(files_to_download) = 2

\* C3: never more than n_parallel transfers are running.
C3_ConcurrencyBound ==
    /\ Cardinality(Running) <= n_parallel
    /\ Cardinality(InFlight) <= n_parallel

\* every worker is busy and a further task waits in the queue
C3_Witness ==
    /\ Cardinality(Running) = n_parallel
    /\ Queued # {}

\* C4: when download_file_list ends, every submitted task has run: it
\* either wrote its file or failed by itself (none was cancelled), and if
\* any task failed the call ended by raising.
C4_FailureIsolation ==
    dpc \in {"returned", "raised"} =>
        /\ \A j \in DOMAIN futures :
              /\ futures[j].state \in {"done", "failed"}
              /\ futures[j].state = "done" =>
                    /\ futures[j].target \in DOMAIN files
                    /\ files[futures[j].target] = RemoteContent(remote, futures[j].rpath)
        /\ Failed # {} => dpc = "raised"

\* the first task failed, the second one ran after it on the only worker
\* and wrote its file, and the call raised the transfer error
C4_Witness ==
    /\ dpc = "raised"
    /\ dexc = "TransferError"
    /\ n_parallel = 1
    /\ Len(futures) = 2
    /\ futures[1].state = "failed"
    /\ futures[2].state = "done"
    /\ futures[2].target \in DOMAIN files
    /\ futures[2].target \notin DOMAIN files0

\* C5 as stated: no task is submitted, and no transfer started, before the
\* planning loop has passed the last manifest entry.
C5_NoDispatchBeforePlanningOver ==
    (futures # <<>> \/ started > 0) => PlanningOver

\* C5 as amended: a task is submitted only after its own entry was planned
\* (its directory exists), tasks are submitted in manifest order, and no
\* result is collected before the planning loop is over.
C5_PlanBeforeOwnDispatch ==
    /\ \A j \in DOMAIN futures :
          /\ futures[j].entry < plan_i
          /\ Parent(futures[j].target) \in dirs
          /\ \A k \in DOMAIN futures : j < k => futures[j].entry < futures[k].entry
    /\ (dpc = "collect" \/ collect_j > 1) => PlanningOver

\* a transfer into a directory that planning created has completed while
\* the planning loop still has an entry to plan
C5_Witness ==
    /\ dpc = "plan"
    /\ ~PlanningOver
    /\ \E j \in DOMAIN futures : futures[j].state = "done"
    /\ Parent(futures[1].target) \notin Prefixes(target_dir)

\* C8: when download_file_list has returned or raised, no submitted task is
\* queued or running.
C8_JoinBeforeReturn ==
    dpc \in {"returned", "raised"} =>
        /\ Queued = {}
        /\ Running = {}
        /\ InFlight = {}

\* planning failed after a task was submitted; the task was started and
\* the call raised
C8_Witness ==
    /\ dpc = "raised"
    /\ dexc = "IOError"
    /\ Len(futures) >= 1
    /\ started = Len(futures)

ScenarioManifest == <<FullManifest[1], FullManifest[4]>>

\* C9: a task is submitted for a planned entry exactly when its target did
\* not exist when the run began or existed with a content hash other than
\* the entry's; for the manifest [("", a.txt), ("/sub", b.txt)] with only
\* a.txt present and up to date, the one task is the one for b.txt.
C9_PlanningDecision ==
    /\ \A k \in 1..(plan_i - 1) :
          (\E j \in DOMAIN futures : futures[j].entry = k)
          <=> LET target == TargetFile(EntryAt(k)[1], EntryAt(k)[2])
              IN  \/ target \notin DOMAIN files0
                  \/ db_content_hash(files0[target]) # EntryAt(k)[3]
    /\ \A j \in DOMAIN futures : futures[j].entry < plan_i
    /\ ( /\ files_to_download = ScenarioManifest
         /\ DOMAIN files0 = {<<"target_dir", "a.txt">>}
         /\ files0[<<"target_dir", "a.txt">>] = FileContent("a.txt")
         /\ PlanningOver )
       => [j \in DOMAIN futures |-> futures[j].entry] = <<2>>

\* the scenario, after planning
C9_Witness ==
    /\ files_to_download = ScenarioManifest
    /\ DOMAIN files0 = {<<"target_dir", "a.txt">>}
    /\ files0[<<"target_dir", "a.txt">>] = FileContent("a.txt")
    /\ dpc = "collect"
    /\ Len(futures) = 1
    /\ futures[1].rpath = <<"/", "sub", "/", "b.txt">>
    /\ futures[1].target = <<"target_dir", "sub", "b.txt">>

\* the future whose result() raised
RaisedFrom == collect_j

ErrorOfEarliestSubmitted ==
    dexc = "TransferError" =>
        /\ RaisedFrom \in DOMAIN futures
        /\ futures[RaisedFrom].state = "failed"
        /\ \A k \in 1..(RaisedFrom - 1) : futures[k].state = "done"
        /\ \A k \in Failed : RaisedFrom <= k

\* C14: the error download_file_list raises is that of the failed task
\* submitted first, whichever task failed first in time: every task
\* submitted before it succeeded.  Once it is raised no further result is
\* collected.
C14_ErrorPropagationOrder ==
    /\ []ErrorOfEarliestSubmitted
    /\ [][(dexc = "TransferError" /\ dexc' = "TransferError") => collect_j' = collect_j]_vars

\* two tasks failed, the second one first; the first one's error was raised
\* and the call has ended
C14_Witness ==
    /\ dexc = "TransferError"
    /\ dpc = "raised"
    /\ RaisedFrom = 1
    /\ first_failed = 2
    /\ Cardinality(Failed) >= 2

PlanningFailed ==
    dexc = "IOError" =>
        /\ dpc \in {"exit", "raised"}
        /\ plan_i <= Len(files_to_download)
        /\ \A j \in DOMAIN futures : futures[j].entry < plan_i
        /\ collect_j = 1
        /\ dpc = "raised" =>
              /\ \A j \in DOMAIN futures : Terminated(futures[j])
              /\ InFlight = {}

\* C18: when planning fails with an IOError at entry k the call is on its
\* way to raising that error; only entries before k have a task, and none
\* is submitted afterwards; no result is collected; and the error reaches
\* the caller only when every submitted task has ended.
C18_PlanningFailure ==
    /\ []PlanningFailed
    /\ [][(dexc = "IOError" /\ run' = run) =>
             /\ dexc' = "IOError"
             /\ plan_i' = plan_i
             /\ Len(futures') = Len(futures)]_vars

\* planning failed at the second entry while the first entry's task was
\* not yet finished; the task then wrote its file and the call raised
C18_Witness ==
    /\ dexc = "IOError"
    /\ dpc = "raised"
    /\ plan_i = 2
    /\ Len(files_to_download) >= 2
    /\ Len(futures) = 1
    /\ futures[1].state = "done"
    /\ futures[1].target \in DOMAIN files
    /\ futures[1].target \notin DOMAIN files0

Target(k) == TargetFile(EntryAt(k)[1], EntryAt(k)[2])

PairwiseDistinct(manifest) ==
    \A j, k \in DOMAIN manifest :
        (manifest[j].items[1] = manifest[k].items[1]
           /\ manifest[j].items[2] = manifest[k].items[2]) => j = k

NoWriteRace ==
    /\ \A j, k \in DOMAIN files_to_download : Target(j) = Target(k) => j = k
    /\ \A j, k \in Running : futures[j].target = futures[k].target => j = k
    /\ (dpc = "plan" /\ plan_i <= Len(files_to_download) /\ Target(plan_i) \in DOMAIN files) =>
          \A j \in Running : futures[j].target # Target(plan_i)

\* C15 as stated: whenever the entries of the manifest are pairwise
\* different in (parent path, file name), their targets are pairwise
\* different, no two running transfers have the same target, and no running
\* transfer has the target the planning loop is about to hash.
C15_NoWriteRaceAnyManifest ==
    PairwiseDistinct(files_to_download) => NoWriteRace

\* a parent path as get_file_list_recursive builds it: "" or a run of
\* "/" + folder name
TraversalPath(p) ==
    /\ Len(p) % 2 = 0
    /\ \A j \in DOMAIN p : (p[j] = "/") <=> (j % 2 = 1)

\* C15, amended: the same for a manifest whose parent paths are all as the
\* traversal builds them.
C15_NoWriteRace ==
    (/\ PairwiseDistinct(files_to_download)
     /\ \A k \in DOMAIN files_to_download : TraversalPath(EntryAt(k)[1])) => NoWriteRace

\* two transfers of a traversal-built manifest are running at once, into
\* different targets, over stale local files
C15_Witness ==
    /\ \A k \in DOMAIN files_to_download : TraversalPath(EntryAt(k)[1])
    /\ Cardinality(Running) = 2
    /\ \A j \in Running : futures[j].target \in DOMAIN files0

(***************************************************************************)
(* The script (lines 103-138): the token file is checked and read, the     *)
(* file list is got, cut to max_num_files, summed up for the message of    *)
(* line 136 and downloaded.  An uncaught exception and sys.exit(message)   *)
(* both end the process with status 1.                                     *)
(***************************************************************************)
Max(a, b) == IF a > b THEN a ELSE b

\* seq[:n]
PySliceTo(seq, n) ==
    IF n >= 0 THEN SubSeq(seq, 1, Min(n, Len(seq)))
    ELSE SubSeq(seq, 1, Max(Len(seq) + n, 0))

\* reduce(add, sizes) without an initial value
ReduceAddRaises(sizes) == Len(sizes) = 0

MainExit(status, error) ==
    /\ mpc' = status
    /\ m_error' = error

\* a start that goes on to the listing without looking at the token file
MainCheckTokenSkipped ==
    /\ mpc = "start"
    /\ mpc' = "list_call"
    /\ UNCHANGED <<token_file, max_num_files, m_error>>
    /\ UNCHANGED <<listVars, dlVars, hashVars>>

\* lines 118-119
MainCheckToken ==
    /\ mpc = "start"
    /\ IF token_file = "absent"
       THEN MainExit("exit_1", "API token file not found")
       ELSE MainExit("token", m_error)
    /\ UNCHANGED <<token_file, max_num_files>>
    /\ UNCHANGED <<listVars, dlVars, hashVars>>

\* lines 121-125: json.load(fd)['api_token']
MainLoadToken ==
    /\ mpc = "token"
    /\ IF token_file = "token"
       THEN MainExit("list_call", m_error)
       ELSE MainExit("exit_1", "KeyError")
    /\ UNCHANGED <<token_file, max_num_files>>
    /\ UNCHANGED <<listVars, dlVars, hashVars>>

\* line 130: get_file_list_recursive is called
MainCallList ==
    /\ mpc = "list_call"
    /\ lpc = "idle"
    /\ lpc' = "enter"
    /\ mpc' = "listing"
    /\ UNCHANGED <<ListArgs, ListLocals, cacheFile, cache0, ret, exc, requests, call, prev>>
    /\ UNCHANGED <<token_file, max_num_files, m_error>>
    /\ UNCHANGED <<dlVars, hashVars>>

\* line 130: get_file_list_recursive raised
MainListRaised ==
    /\ mpc = "listing"
    /\ lpc = "raised"
    /\ MainExit("exit_1", exc)
    /\ UNCHANGED <<token_file, max_num_files>>
    /\ UNCHANGED <<listVars, dlVars, hashVars>>

\* lines 130-134: get_file_list_recursive returned; the list is cut
MainSlice ==
    /\ mpc = "listing"
    /\ lpc = "returned"
    /\ files_to_download' = IF ~max_num_files.is_none
                            THEN PySliceTo(ret, max_num_files.value)
                            ELSE ret
    /\ mpc' = "sliced"
    /\ UNCHANGED <<n_parallel, dirs, files, files0, dpc, plan_i, futures, threads,
                   idle_semaphore, collect_j, dexc, started, run, prevRun, first_failed>>
    /\ UNCHANGED <<token_file, max_num_files, m_error>>
    /\ UNCHANGED <<listVars, hashVars>>

\* lines 136-138: the message is printed and download_file_list is called
MainCallDownload ==
    /\ mpc = "sliced"
    /\ IF ReduceAddRaises([k \in DOMAIN files_to_download |-> EntryAt(k)[4]])
       THEN /\ MainExit("exit_1", "TypeError")
            /\ dpc' = dpc
       ELSE /\ MainExit("downloading", m_error)
            /\ dpc' = "plan"
    /\ UNCHANGED <<DlArgs, dirs, files, files0, plan_i, futures, threads,
                   idle_semaphore, collect_j, dexc, started, run, prevRun, first_failed>>
    /\ UNCHANGED <<token_file, max_num_files>>
    /\ UNCHANGED <<listVars, hashVars>>

\* line 138: download_file_list returned or raised; the script ends
MainEnd ==
    /\ mpc = "downloading"
    /\ dpc \in {"returned", "raised"}
    /\ IF dpc = "returned"
       THEN MainExit("exit_0", m_error)
       ELSE MainExit("exit_1", dexc)
    /\ UNCHANGED <<token_file, max_num_files>>
    /\ UNCHANGED <<listVars, dlVars, hashVars>>

\* the remote trees of the script's runs: at most MaxFiles files, in the
\* root and in one folder
MainTrees ==
    { s \in TreeShapes :
        /\ s.depth <= 1
        /\ ~s.img
        /\ Cardinality(s.files[0])
             + (IF s.depth = 1 THEN Cardinality(s.files[1]) ELSE 0) <= MaxFiles }

Init ==
    /\ token_file \in {"absent", "token", "no_token"}
    /\ max_num_files \in {PyNoLimit} \cup { PyInt(n) : n \in 0..MaxFiles }
    /\ mpc = "start"
    /\ m_error = "none"
    /\ remote \in { Tree(s) : s \in MainTrees }
    /\ pageSize = MaxPageSize
    /\ link_root = "link"
    /\ file_list_location \in {PyNone, "filelist.json"}
    /\ cacheFile \in (IF file_list_location = PyNone THEN {NoFile} ELSE InitialCaches)
    /\ cache0 = cacheFile
    /\ lpc = "idle"
    /\ path_worklist = <<>>
    /\ path = Root
    /\ res = NoRes
    /\ entries = <<>>
    /\ all_files = <<>>
    /\ ret = <<>>
    /\ exc = "none"
    /\ requests = <<>>
    /\ call = 1
    /\ prev = [lpc |-> "none", ret |-> <<>>, traversed |-> FALSE]
    /\ files_to_download = <<>>
    /\ n_parallel \in 1..MaxParallel
    /\ \E present \in BOOLEAN :
          /\ files = IF present
                     THEN WriteFile(<< >>, TargetFile(Root, "a.txt"), FileContent("a.txt"))
                     ELSE << >>
          /\ dirs = IF present THEN Prefixes(target_dir) ELSE {}
    /\ files0 = files
    /\ dpc = "idle"
    /\ plan_i = 1
    /\ futures = <<>>
    /\ threads = <<>>
    /\ idle_semaphore = 0
    /\ collect_j = 1
    /\ dexc = "none"
    /\ started = 0
    /\ run = 1
    /\ prevRun = NoRun
    /\ first_failed = 0
    /\ HashIdle

Next ==
    \/ MainCheckToken
    \/ MainLoadToken
    \/ MainCallList
    \/ ExistsRaises
    \/ LoadSavedFileList
    \/ StartTraversal
    \/ PopAndList
    \/ PopAndListFails
    \/ ListContinue
    \/ ListContinueFails
    \/ Classify
    \/ FinishTraversal
    \/ MainListRaised
    \/ MainSlice
    \/ MainCallDownload
    \/ PlanSkip
    \/ PlanSubmit
    \/ PlanFails
    \/ EndPlanning
    \/ \E w \in DOMAIN threads : WorkerTake(w)
    \/ \E w \in DOMAIN threads : TransferSucceeds(w)
    \/ \E w \in DOMAIN threads : TransferFails(w)
    \/ CollectResult
    \/ CollectRaises
    \/ EndCollect
    \/ PoolExit
    \/ MainEnd

Spec == Init /\ [][Next]_vars

\* C12: with the token file absent the script ends with status 1 before
\* get_file_list_recursive is called: no listing request, no read or write
\* of the file list, no transfer.
C12_CredentialCheckFirst ==
    token_file = "absent" =>
        /\ mpc \in {"start", "exit_1"}
        /\ mpc = "exit_1" => m_error = "API token file not found"
        /\ lpc = "idle"
        /\ requests = <<>>
        /\ cacheFile = cache0
        /\ dpc = "idle"
        /\ futures = <<>>
        /\ started = 0
        /\ files = files0

\* the script has ended on the missing token file although a saved file
\* list was there to load
C12_Witness ==
    /\ token_file = "absent"
    /\ mpc = "exit_1"
    /\ cacheFile.exists

\* C19: when the file list is empty (nothing listed, or max_num_files = 0)
\* the script calls download_file_list, which starts no transfer and
\* returns, and the script ends with status 0.
C19_EmptyManifestSucceeds ==
    (lpc = "returned" /\ mpc \in {"exit_0", "exit_1"} /\ files_to_download = <<>>) =>
        /\ mpc = "exit_0"
        /\ dpc = "returned"
        /\ started = 0

(***************************************************************************)
(* db_content_hash on its own: every file of up to MaxLen blocks, each     *)
(* block one of two values, hashed up to MaxCalls times.                   *)
(***************************************************************************)
FileContents == UNION { [1..n -> {1, 2}] : n \in 0..MaxLen }

HashInit ==
    /\ ListIdle
    /\ DownloadIdle
    /\ MainIdle
    /\ h_content \in FileContents
    /\ h_rest = <<>>
    /\ h_chunk_hashes = <<>>
    /\ h_result = NoHash
    /\ hpc = "open"
    /\ h_call = 1
    /\ h_prev = NoHash

HashNext ==
    \/ HashOpen
    \/ HashReadChunk
    \/ HashReturn
    \/ HashAgain

SpecHash == HashInit /\ [][HashNext]_vars

NumChunks(content) == (Len(content) + CHUNK_SIZE - 1) \div CHUNK_SIZE

ChunkOf(content, k) ==
    SubSeq(content, (k - 1) * CHUNK_SIZE + 1, Min(k * CHUNK_SIZE, Len(content)))

\* C11: db_content_hash digests the consecutive CHUNK_SIZE chunks of the
\* file (the last one possibly shorter) and returns the digest of the chunk
\* digests in read order; for an empty file that is the digest of the empty
\* sequence; a repeated call on the same content returns the same value.
C11_ContentHashStructure ==
    /\ hpc = "read" =>
          /\ h_chunk_hashes =
                [k \in 1..Len(h_chunk_hashes) |-> Sha256(ChunkOf(h_content, k))]
          /\ h_rest = SubSeq(h_content, Len(h_content) - Len(h_rest) + 1, Len(h_content))
          /\ Len(h_rest) > 0 => Len(h_content) - Len(h_rest) = CHUNK_SIZE * Len(h_chunk_hashes)
    /\ hpc = "returned" =>
          /\ h_result = HexDigest(Sha256([k \in 1..NumChunks(h_content) |->
                                             Sha256(ChunkOf(h_content, k))]))
          /\ h_content = <<>> => h_result = HexDigest(Sha256(<<>>))
          /\ h_result = db_content_hash(h_content)
          /\ h_call > 1 => h_result = h_prev

\* a file of two full chunks and a shorter third one, hashed a second time
C11_Witness ==
    /\ hpc = "returned"
    /\ h_call = 2
    /\ Len(h_content) = 2 * CHUNK_SIZE + 1
    /\ Len(h_result.hex.sha256) = 3

====
